---- MODULE Spec2Model ----
(***************************************************************************)
(* Model of the reduction kernel of DectrisTools (lib/computation.c):      *)
(* masked_histogram, masked_sum, normed_sum and the historical             *)
(* normed_stack, as CPython extension functions working on numpy arrays.   *)
(*                                                                         *)
(* An array is a record [ndim, type, shape, data, behaved]: data is the    *)
(* row-major sequence of its elements, behaved says whether the array is   *)
(* C-contiguous, aligned and writeable (NPY_ARRAY_CARRAY), i.e. whether    *)
(* PyArray_AsCArray can use it as it is or has to make a copy.             *)
(*                                                                         *)
(* float32 values are represented by the integer 2*v: every float of the   *)
(* model is a multiple of 0.5 (pixels are integers, norm values are 1.0    *)
(* or 2.0), and F32Round rounds to the 24-bit significand of float32.      *)
(*                                                                         *)
(* A npy_uint64 is the sequence of its four 16-bit limbs, least            *)
(* significant first, so that its arithmetic keeps its width.              *)
(***************************************************************************)
EXTENDS Integers, Sequences, FiniteSets, TLC

\* ---------------------------------------------------------------- bounds
MaxN == 2
MaxPixels == 2

\* ------------------------------------------------------ program constants
n_bins == 65536
BigN == 257
UINT16_MAX == 65535
LimbBase == 65536
SignBit == 32768
F32Mantissa == 16777216

NPY_UINT16 == "uint16"
NPY_UINT64 == "uint64"
NPY_FLOAT32 == "float32"

Ops == {"masked_histogram", "masked_sum", "normed_sum", "normed_stack"}
MaskOps == {"masked_histogram", "masked_sum"}

\* value sets the inputs are drawn from
PixelVals == {0, UINT16_MAX}
MaskVals == {0, 1, 2}
NormVals == {2, 4}          \* 1.0 and 2.0
GarbageVals == {0, 2}       \* what uninitialised float32 memory may hold: 0.0, 1.0

\* ------------------------------------------------------------ the arrays
Arr(nd, ty, sh, d, b) ==
  [ndim |-> nd, type |-> ty, shape |-> sh, data |-> d, behaved |-> b]

Prod(s) == IF Len(s) = 0 THEN 1
           ELSE IF Len(s) = 1 THEN s[1]
           ELSE IF Len(s) = 2 THEN s[1] * s[2]
           ELSE s[1] * s[2] * s[3]

\* images[i][j][k], mask[j][k], norm_values[i] with 0-based C indices
At3(a, i, j, k) == a.data[(i * a.shape[2] + j) * a.shape[3] + k + 1]
At2(a, j, k) == a.data[j * a.shape[2] + k + 1]
At1(a, i) == a.data[i + 1]

FrameShapes == {<<h, w>> : h \in 1..MaxPixels, w \in 1..MaxPixels}

Stacks ==
  UNION { { Arr(3, NPY_UINT16, <<n, hw[1], hw[2]>>, d, TRUE) :
              d \in [1..(n * hw[1] * hw[2]) -> PixelVals] } :
          n \in 0..MaxN,
          hw \in {s \in FrameShapes : s[1] * s[2] <= MaxPixels} }

Masks ==
  UNION { { Arr(2, NPY_UINT16, hw, d, TRUE) :
              d \in [1..(hw[1] * hw[2]) -> MaskVals] } :
          hw \in {s \in FrameShapes : s[1] * s[2] <= MaxPixels} }

Norms ==
  UNION { { Arr(1, NPY_FLOAT32, <<n>>, d, TRUE) :
              d \in [1..n -> NormVals] } : n \in 0..MaxN }

\* the examples of the documentation and the inputs at the numeric limits
ExampleFrame == Arr(3, NPY_UINT16, <<1, 2, 2>>, <<1, 2, 3, 4>>, TRUE)
ExampleMask == Arr(2, NPY_UINT16, <<2, 2>>, <<1, 0, 0, 1>>, TRUE)
ExampleTwoFrames == Arr(3, NPY_UINT16, <<2, 1, 1>>, <<5, 7>>, TRUE)
BigStack == Arr(3, NPY_UINT16, <<BigN, 1, 1>>, [x \in 1..BigN |-> UINT16_MAX], TRUE)
BigNorm == Arr(1, NPY_FLOAT32, <<BigN>>, [x \in 1..BigN |-> 2], TRUE)
HeavyMask == Arr(2, NPY_UINT16, <<1, 1>>, <<UINT16_MAX>>, TRUE)

\* arrays of a wrong rank or element type
FlatUint16 == Arr(1, NPY_UINT16, <<1>>, <<1>>, TRUE)
FloatImage == Arr(2, NPY_FLOAT32, <<1, 1>>, <<2>>, TRUE)
FloatStack == Arr(3, NPY_FLOAT32, <<1, 1, 1>>, <<2>>, TRUE)
Uint16Image == Arr(2, NPY_UINT16, <<1, 1>>, <<1>>, TRUE)

\* the same array as a non-contiguous or read-only view
Unbehaved(a) == [a EXCEPT !.behaved = FALSE]

CuratedFrames == {ExampleFrame, ExampleTwoFrames}
FrameArgs ==
  Stacks \cup CuratedFrames \cup {Unbehaved(f) : f \in CuratedFrames} \cup {BigStack}
BadFrameArgs == {Uint16Image, FloatStack, FloatImage}
BadSecondArgs == {FlatUint16, FloatImage}

\* the masks and norm arrays that fit the frame stack f
Matching(f) ==
  {m \in Masks \cup {ExampleMask} \cup (IF f.shape[1] <= MaxN THEN {HeavyMask} ELSE {}) :
     m.shape = <<f.shape[2], f.shape[3]>>}
  \cup {v \in Norms \cup {BigNorm} : v.shape = <<f.shape[1]>>}

\* the second arguments tried with a frame stack f: every mask of its frame
\* shape, every norm array of its length, and arrays that do not fit
SecondArgsFor(f) ==
  IF f.ndim # 3 \/ f.type # NPY_UINT16
  THEN {Uint16Image, FlatUint16, Arr(1, NPY_FLOAT32, <<1>>, <<2>>, TRUE)}
  ELSE Matching(f)
       \cup (IF [f EXCEPT !.behaved = TRUE] \in CuratedFrames
             THEN {Unbehaved(a) : a \in Matching(f)} ELSE {})
       \cup {Arr(2, NPY_UINT16, <<f.shape[2] + 1, f.shape[3]>>,
                 [x \in 1..((f.shape[2] + 1) * f.shape[3]) |-> 1], TRUE),
             Arr(2, NPY_UINT16, <<f.shape[2], f.shape[3] + 1>>,
                 [x \in 1..(f.shape[2] * (f.shape[3] + 1)) |-> 1], TRUE),
             Arr(1, NPY_FLOAT32, <<f.shape[1] + 1>>,
                 [x \in 1..(f.shape[1] + 1) |-> 2], TRUE)}
       \cup BadSecondArgs

\* --------------------------------------------------- numeric semantics of C
\* the npy_uint64 holding the integer n (n below 2^31)
ToU64(n) == <<n % LimbBase, n \div LimbBase, 0, 0>>
U64Zero == ToU64(0)

\* mutant: a 16-bit accumulator
U64AddNarrow(x, y) == <<(x[1] + y[1]) % LimbBase, 0, 0, 0>>

\* x + y on npy_uint64: limb-wise with carry, the carry out of the top limb is lost
U64Add(x, y) ==
  LET s1 == x[1] + y[1]
      s2 == x[2] + y[2] + (s1 \div LimbBase)
      s3 == x[3] + y[3] + (s2 \div LimbBase)
      s4 == x[4] + y[4] + (s3 \div LimbBase)
  IN  <<s1 % LimbBase, s2 % LimbBase, s3 % LimbBase, s4 % LimbBase>>

\* the low 32 bits of a * b for two npy_uint16, as two limbs
Mul16(a, b) ==
  LET x == a * (b % 256)
      y == a * (b \div 256)
      t == x + 256 * (y % 256)
  IN  <<t % LimbBase, ((y \div 256) + (t \div LimbBase)) % LimbBase>>

\* images[i][j][k] * mask[j][k]: both npy_uint16 operands are promoted to int;
\* a product above INT_MAX is signed overflow (undefined): the build either
\* wraps to a negative int, which the conversion to npy_uint64 sign-extends,
\* or keeps the product in a wide register. The result is the npy_uint64 the
\* += adds.
IntMulAsU64(a, b) ==
  LET p == Mul16(a, b)
  IN  IF p[2] < SignBit THEN {<<p[1], p[2], 0, 0>>}
      ELSE {<<p[1], p[2], LimbBase - 1, LimbBase - 1>>, <<p[1], p[2], 0, 0>>}

\* the unit in the last place of the float32 holding the non-negative integer h
RECURSIVE Ulp(_)
Ulp(h) == IF h < F32Mantissa THEN 1 ELSE 2 * Ulp(h \div 2)

\* round to nearest float32, ties to even (h counts halves, which does not
\* matter: rounding to a 24-bit significand is scale-invariant)
F32Round(h) ==
  LET u == Ulp(h)
      q == h \div u
      r == h % u
  IN  IF 2 * r < u THEN q * u
      ELSE IF 2 * r > u THEN (q + 1) * u
      ELSE IF q % 2 = 0 THEN q * u ELSE (q + 1) * u

\* images[i][j][k] / norm_values[i]: the pixel is converted to float (exact),
\* and divided by the norm value nv (in halves, a power of two, so the quotient
\* is exact before rounding)
F32Div(p, nv) == F32Round((4 * p) \div nv)

\* x += y on a npy_float32
F32Add(x, y) == F32Round(x + y)

\* ------------------------------------------------------------- the state
Threads == {1, 2}
Args == {"images", "second"}

VARIABLES
  images_obj,        \* the first argument of every call (shared, read-only)
  second_obj,        \* the second argument: mask_obj or norm_values_obj
  threads,           \* the host threads that call into the kernel
  gil,               \* the thread holding the interpreter lock, 0 when free
  heap,              \* the output arrays allocated so far, by address 1, 2, ...
  pc,                \* where each thread's call stands
  op,                \* the function each thread called
  images_npyarray,   \* "NULL", "obj" (the argument itself) or "copy"
  second_npyarray,   \* mask_npyarray or norm_values_npyarray, likewise
  result_obj,        \* histogram_obj, sum_obj, ...: a heap address, 0 for NULL
  rc,                \* per call: references held on the arguments, on the copies
                     \* PyArray_AsCArray made, and the pointer tables it malloc'ed
  idx,               \* the loop counters i, j, k
  iters,             \* how many times the loop body has run
  ret,               \* the returned object: a heap address, 0 for NULL
  err                \* the exception set: "none" or its type

vars == <<images_obj, second_obj, threads, gil, heap, pc, op, images_npyarray,
          second_npyarray, result_obj, rc, idx, iters, ret, err>>

inputs == <<images_obj, second_obj, threads>>

NoRefs == [obj |-> [a \in Args |-> 0], copy |-> [a \in Args |-> 0],
           table |-> [a \in Args \cup {"out"} |-> 0]]

InitCalls ==
  /\ gil = 0
  /\ heap = <<>>
  /\ pc = [c \in Threads |-> "idle"]
  /\ op = [c \in Threads |-> "none"]
  /\ images_npyarray = [c \in Threads |-> "NULL"]
  /\ second_npyarray = [c \in Threads |-> "NULL"]
  /\ result_obj = [c \in Threads |-> 0]
  /\ rc = [c \in Threads |-> NoRefs]
  /\ idx = [c \in Threads |-> <<0, 0, 0>>]
  /\ iters = [c \in Threads |-> 0]
  /\ ret = [c \in Threads |-> 0]
  /\ err = [c \in Threads |-> "none"]

\* one thread, every input of the bounded sets
Init ==
  /\ images_obj \in FrameArgs \cup BadFrameArgs
  /\ second_obj \in SecondArgsFor(images_obj)
  /\ threads = {1}
  /\ InitCalls

\* ------------------------------------------------ reference counting (numpy)
\* Py_XDECREF(p) of a pointer to argument a: nothing for NULL
Py_XDECREF(r, a, p) ==
  CASE p = "NULL" -> r
    [] p = "obj" -> [r EXCEPT !.obj[a] = @ - 1]
    [] p = "copy" -> [r EXCEPT !.copy[a] = @ - 1]

\* mutant: the pointer table is freed but the reference is kept
PyArray_FreeNoDecref(r, a, arr) ==
  IF arr.ndim < 1 \/ arr.ndim > 3 THEN r
  ELSE [r EXCEPT !.table[a] = IF arr.ndim >= 2 THEN @ - 1 ELSE @]

\* PyArray_Free(op, ptr) on the argument object op itself: frees the pointer
\* table of a 2- or 3-dimensional array and drops one reference to op
PyArray_Free(r, a, arr) ==
  IF arr.ndim < 1 \/ arr.ndim > 3 THEN r
  ELSE [r EXCEPT !.obj[a] = @ - 1,
                 !.table[a] = IF arr.ndim >= 2 THEN @ - 1 ELSE @]

\* a successful PyArray_AsCArray(&p, &ptr, dims, nd, descr) on argument a:
\* PyArray_FromAny returns the array itself with one more reference when it is
\* behaved, a fresh copy otherwise; for nd >= 2 a pointer table is malloc'ed
AsCArrayRefs(r, a, arr, nd) ==
  LET r1 == IF arr.behaved THEN [r EXCEPT !.obj[a] = @ + 1]
            ELSE [r EXCEPT !.copy[a] = @ + 1]
  IN  [r1 EXCEPT !.table[a] = IF nd >= 2 THEN @ + 1 ELSE @]

\* *op after the call: the array PyArray_FromAny returned
AsCArrayPtr(arr) == IF arr.behaved THEN "obj" ELSE "copy"

\* ----------------------------------------------------------- output arrays
\* element x (0-based flat offset) of an output array
Elem(b, x) == IF x \in DOMAIN b.data THEN b.data[x] ELSE b.fill

Store(b, x, v) == [b EXCEPT !.data = (x :> v) @@ b.data]

\* mutant: the result array is not cleared
PyArray_ZerosUninit(dims, ty) ==
  [refcnt |-> 1, type |-> ty, shape |-> dims,
   fill |-> IF ty = NPY_UINT64 THEN ToU64(1) ELSE 2, data |-> <<>>]

\* PyArray_Zeros(nd, dims, descr, 0): every element is zero; one reference
PyArray_Zeros(dims, ty) ==
  [refcnt |-> 1, type |-> ty, shape |-> dims,
   fill |-> IF ty = NPY_UINT64 THEN U64Zero ELSE 0, data |-> <<>>]

\* PyArray_Empty(nd, dims, descr, 0): the elements are whatever the memory held
PyArray_Empty(dims, ty, garbage) ==
  [refcnt |-> 1, type |-> ty, shape |-> dims, fill |-> garbage, data |-> <<>>]

\* npy_intp n_bins = 65536; PyArray_Zeros (1, &n_bins, uint64)
HistogramResult(f) == PyArray_Zeros(<<n_bins>>, NPY_UINT64)

\* mutant: the sum array sized by the rows of a frame
SumResultWrongDim(f) == PyArray_Zeros(<<f.shape[2]>>, NPY_UINT64)

\* PyArray_Zeros (1, &images_shape[0], uint64)
SumResult(f) == PyArray_Zeros(<<f.shape[1]>>, NPY_UINT64)

\* image_shape = {images_shape[1], images_shape[2]}; PyArray_Zeros (2, image_shape, float32)
SumImgResult(f) == PyArray_Zeros(<<f.shape[2], f.shape[3]>>, NPY_FLOAT32)

\* PyArray_Empty (3, images_shape, float32): one array per content of the memory
NormedImagesResults(f) == {PyArray_Empty(f.shape, NPY_FLOAT32, g) : g \in GarbageVals}

\* what each function allocates for its result
NewResults(o, f) ==
  CASE o = "masked_histogram" -> {HistogramResult(f)}
    [] o = "masked_sum" -> {SumResult(f)}
    [] o = "normed_sum" -> {SumImgResult(f)}
    [] o = "normed_stack" -> NormedImagesResults(f)

\* mutant: one static result buffer for all calls
NewAddressStatic(h) == 1

\* the address the allocator hands out
NewAddress(h) == Len(h) + 1

\* ----------------------------------------------------------------- actions
NoCrash == \A c \in Threads : pc[c] # "crashed"

\* return NULL with the exception e set; the caller's thread gives up the lock
Fail(c, e, r) ==
  /\ pc' = [pc EXCEPT ![c] = "returned"]
  /\ err' = [err EXCEPT ![c] = e]
  /\ ret' = [ret EXCEPT ![c] = 0]
  /\ rc' = [rc EXCEPT ![c] = r]
  /\ gil' = 0

\* what the second argument must be for function o
SecondNdim(o) == IF o \in MaskOps THEN 2 ELSE 1
SecondType(o) == IF o \in MaskOps THEN NPY_UINT16 ELSE NPY_FLOAT32

\* a thread holding the interpreter lock calls o with nargs arguments:
\* PyArg_ParseTuple, then PyArray_FROM_O (images_obj)
Call(c, o, nargs) ==
  /\ NoCrash
  /\ pc[c] = "idle"
  /\ gil = 0
  /\ op' = [op EXCEPT ![c] = o]
  /\ IF nargs # 2
     THEN /\ Fail(c, "TypeError", rc[c])
          /\ UNCHANGED <<images_npyarray>>
     ELSE /\ images_npyarray' = [images_npyarray EXCEPT ![c] = "obj"]
          /\ rc' = [rc EXCEPT ![c].obj["images"] = @ + 1]
          /\ pc' = [pc EXCEPT ![c] = "check_images"]
          /\ gil' = c
          /\ UNCHANGED <<ret, err>>
  /\ UNCHANGED <<inputs, heap, second_npyarray, result_obj, idx, iters>>

\* the rank and type checks of images, then PyArray_FROM_O (second argument)
CheckImages(c) ==
  /\ NoCrash
  /\ pc[c] = "check_images"
  /\ IF images_obj.ndim # 3
     THEN /\ Fail(c, "IndexError", Py_XDECREF(rc[c], "images", images_npyarray[c]))
          /\ UNCHANGED second_npyarray
     ELSE IF images_obj.type # NPY_UINT16
     THEN /\ Fail(c, "RuntimeError", Py_XDECREF(rc[c], "images", images_npyarray[c]))
          /\ UNCHANGED second_npyarray
     ELSE /\ second_npyarray' = [second_npyarray EXCEPT ![c] = "obj"]
          /\ rc' = [rc EXCEPT ![c].obj["second"] = @ + 1]
          /\ pc' = [pc EXCEPT ![c] = "check_second"]
          /\ UNCHANGED <<gil, ret, err>>
  /\ UNCHANGED <<inputs, heap, op, images_npyarray, result_obj, idx, iters>>

\* both references dropped, as every later error branch does
DropBoth(c) ==
  Py_XDECREF(Py_XDECREF(rc[c], "second", second_npyarray[c]),
             "images", images_npyarray[c])

\* the rank and type checks of the mask or the norm values
CheckSecond(c) ==
  /\ NoCrash
  /\ pc[c] = "check_second"
  /\ IF second_obj.ndim # SecondNdim(op[c])
     THEN Fail(c, "IndexError", DropBoth(c))
     ELSE IF second_obj.type # SecondType(op[c])
     THEN Fail(c, "RuntimeError", DropBoth(c))
     ELSE /\ pc' = [pc EXCEPT ![c] = "check_shape"]
          /\ UNCHANGED <<gil, ret, err, rc>>
  /\ UNCHANGED <<inputs, heap, op, images_npyarray, second_npyarray, result_obj,
                 idx, iters>>

\* mutant: only the first dimension of the mask is compared
ShapesMatchFirstOnly(o, f, m) ==
  IF o \in MaskOps THEN f.shape[2] = m.shape[1] ELSE TRUE

\* images_shape against mask_shape or norm_values_shape
ShapesMatch(o, f, m) ==
  IF o \in MaskOps
  THEN ~(f.shape[2] # m.shape[1] \/ f.shape[3] # m.shape[2])
  ELSE ~(f.shape[1] # m.shape[1])

CheckShape(c) ==
  /\ NoCrash
  /\ pc[c] = "check_shape"
  /\ IF ~ShapesMatch(op[c], images_obj, second_obj)
     THEN Fail(c, "IndexError", DropBoth(c))
     ELSE /\ pc' = [pc EXCEPT ![c] = "alloc"]
          /\ UNCHANGED <<gil, ret, err, rc>>
  /\ UNCHANGED <<inputs, heap, op, images_npyarray, second_npyarray, result_obj,
                 idx, iters>>

\* allocate memory for return array: the allocator returns an array or NULL,
\* and the code goes on to the conversions without looking at it
Alloc(c) ==
  /\ NoCrash
  /\ pc[c] = "alloc"
  /\ \/ \E b \in NewResults(op[c], images_obj) :
          /\ heap' = Append(heap, b)
          /\ result_obj' = [result_obj EXCEPT ![c] = NewAddress(heap)]
     \/ /\ result_obj' = [result_obj EXCEPT ![c] = 0]
        /\ UNCHANGED heap
  /\ pc' = [pc EXCEPT ![c] = "conv_images"]
  /\ UNCHANGED <<inputs, gil, op, images_npyarray, second_npyarray, rc, idx,
                 iters, ret, err>>

\* PyArray_AsCArray (images): on failure drop both references and return NULL
ConvImages(c) ==
  /\ NoCrash
  /\ pc[c] = "conv_images"
  /\ \/ /\ rc' = [rc EXCEPT ![c] = AsCArrayRefs(rc[c], "images", images_obj, 3)]
        /\ images_npyarray' = [images_npyarray EXCEPT ![c] = AsCArrayPtr(images_obj)]
        /\ pc' = [pc EXCEPT ![c] = "conv_second"]
        /\ UNCHANGED <<gil, ret, err>>
     \/ /\ Fail(c, "RuntimeError", DropBoth(c))
        /\ UNCHANGED images_npyarray
  /\ UNCHANGED <<inputs, heap, op, second_npyarray, result_obj, idx, iters>>

\* PyArray_AsCArray (mask or norm values): on failure free the images view,
\* drop both references and return NULL
ConvSecond(c) ==
  /\ NoCrash
  /\ pc[c] = "conv_second"
  /\ \/ /\ rc' = [rc EXCEPT ![c] =
                    AsCArrayRefs(rc[c], "second", second_obj, SecondNdim(op[c]))]
        /\ second_npyarray' = [second_npyarray EXCEPT ![c] = AsCArrayPtr(second_obj)]
        /\ pc' = [pc EXCEPT ![c] = "conv_out"]
        /\ UNCHANGED <<gil, ret, err>>
     \/ /\ Fail(c, "RuntimeError",
                Py_XDECREF(Py_XDECREF(PyArray_Free(rc[c], "images", images_obj),
                                      "second", second_npyarray[c]),
                           "images", images_npyarray[c]))
        /\ UNCHANGED second_npyarray
  /\ UNCHANGED <<inputs, heap, op, images_npyarray, result_obj, idx, iters>>

\* the error branch of the third conversion: free both views, drop both references
FreeBoth(c) ==
  Py_XDECREF(Py_XDECREF(PyArray_Free(PyArray_Free(rc[c], "second", second_obj),
                                     "images", images_obj),
                        "second", second_npyarray[c]),
             "images", images_npyarray[c])

\* PyArray_AsCArray (result): the result array is behaved, so on success it is
\* the array itself with one more reference. Called on a NULL result (a failed
\* allocation) it dereferences NULL: the process crashes, or the call happens
\* to report a failure.
ConvOut(c) ==
  /\ NoCrash
  /\ pc[c] = "conv_out"
  /\ IF result_obj[c] = 0
     THEN \/ /\ pc' = [pc EXCEPT ![c] = "crashed"]
             /\ UNCHANGED <<gil, ret, err, rc, heap>>
          \/ /\ Fail(c, "RuntimeError", FreeBoth(c))
             /\ UNCHANGED heap
     ELSE \/ /\ heap' = [heap EXCEPT ![result_obj[c]].refcnt = @ + 1]
             /\ rc' = [rc EXCEPT ![c].table["out"] =
                         IF Len(heap[result_obj[c]].shape) >= 2 THEN @ + 1 ELSE @]
             /\ pc' = [pc EXCEPT ![c] = "begin_threads"]
             /\ UNCHANGED <<gil, ret, err>>
          \/ /\ Fail(c, "RuntimeError", FreeBoth(c))
             /\ UNCHANGED heap
  /\ UNCHANGED <<inputs, op, images_npyarray, second_npyarray, result_obj, idx, iters>>

\* Py_BEGIN_ALLOW_THREADS: the lock is released, the loops start at i = 0
BeginAllowThreads(c) ==
  /\ NoCrash
  /\ pc[c] = "begin_threads"
  /\ gil' = 0
  /\ idx' = [idx EXCEPT ![c] = <<0, 0, 0>>]
  /\ pc' = [pc EXCEPT ![c] = "loop"]
  /\ UNCHANGED <<inputs, heap, op, images_npyarray, second_npyarray, result_obj,
                 rc, iters, ret, err>>

\* the loop counters after the body at <<i, j, k>> (frames are not empty:
\* shape[2], shape[3] >= 1)
NextIndex(f, x) ==
  IF x[3] + 1 < f.shape[3] THEN <<x[1], x[2], x[3] + 1>>
  ELSE IF x[2] + 1 < f.shape[2] THEN <<x[1], x[2] + 1, 0>>
  ELSE <<x[1] + 1, 0, 0>>

\* mutant: the mask taken as a truth value
MaskIncludesNonzero(mv) == mv # 0

\* if (mask[j][k] == 1)
MaskIncludes(mv) == mv = 1

\* mutant: the last frame left out
LoopGuardSkipLast(f, x) == x[1] < f.shape[1] - 1

\* i < images_shape[0]
LoopGuard(f, x) == x[1] < f.shape[1]

\* if (mask[j][k] == 1) histogram[images[i][j][k]]++;
HistogramBody(b, f, m, x) ==
  LET pixel == At3(f, x[1], x[2], x[3])
  IN  IF MaskIncludes(At2(m, x[2], x[3]))
      THEN {Store(b, pixel, U64Add(Elem(b, pixel), ToU64(1)))}
      ELSE {b}

\* sum[i] += images[i][j][k] * mask[j][k];
SumBody(b, f, m, x) ==
  {Store(b, x[1], U64Add(Elem(b, x[1]), p)) :
     p \in IntMulAsU64(At3(f, x[1], x[2], x[3]), At2(m, x[2], x[3]))}

\* sum_img[j][k] += images[i][j][k] / norm_values[i];
NormedSumBody(b, f, m, x) ==
  LET at == x[2] * f.shape[3] + x[3]
  IN  {Store(b, at, F32Add(Elem(b, at), F32Div(At3(f, x[1], x[2], x[3]), At1(m, x[1]))))}

\* normed_images[i][j][k] += images[i][j][k] / norm_values[i];
NormedStackBody(b, f, m, x) ==
  LET at == (x[1] * f.shape[2] + x[2]) * f.shape[3] + x[3]
  IN  {Store(b, at, F32Add(Elem(b, at), F32Div(At3(f, x[1], x[2], x[3]), At1(m, x[1]))))}

\* the results of one run of the loop body of function o at x = <<i, j, k>> on
\* the output array b
LoopBody(o, b, f, m, x) ==
  CASE o = "masked_histogram" -> HistogramBody(b, f, m, x)
    [] o = "masked_sum" -> SumBody(b, f, m, x)
    [] o = "normed_sum" -> NormedSumBody(b, f, m, x)
    [] o = "normed_stack" -> NormedStackBody(b, f, m, x)

\* one iteration of the innermost loop, without the interpreter lock
LoopStep(c) ==
  /\ NoCrash
  /\ pc[c] = "loop"
  /\ LoopGuard(images_obj, idx[c])
  /\ \E b \in LoopBody(op[c], heap[result_obj[c]], images_obj, second_obj, idx[c]) :
       heap' = [heap EXCEPT ![result_obj[c]] = b]
  /\ idx' = [idx EXCEPT ![c] = NextIndex(images_obj, idx[c])]
  /\ iters' = [iters EXCEPT ![c] = @ + 1]
  /\ UNCHANGED <<inputs, gil, pc, op, images_npyarray, second_npyarray, result_obj,
                 rc, ret, err>>

\* Py_END_ALLOW_THREADS after the last iteration: wait for the lock
EndAllowThreads(c) ==
  /\ NoCrash
  /\ pc[c] = "loop"
  /\ ~LoopGuard(images_obj, idx[c])
  /\ gil = 0
  /\ gil' = c
  /\ pc' = [pc EXCEPT ![c] = "cleanup"]
  /\ UNCHANGED <<inputs, heap, op, images_npyarray, second_npyarray, result_obj,
                 rc, idx, iters, ret, err>>

\* the three PyArray_Free, the two Py_DECREF, and the return of the result
Cleanup(c) ==
  /\ NoCrash
  /\ pc[c] = "cleanup"
  /\ rc' = [rc EXCEPT ![c] =
              LET r == FreeBoth(c)
              IN  [r EXCEPT !.table["out"] =
                     IF Len(heap[result_obj[c]].shape) >= 2 THEN @ - 1 ELSE @]]
  /\ heap' = [heap EXCEPT ![result_obj[c]].refcnt = @ - 1]
  /\ ret' = [ret EXCEPT ![c] = result_obj[c]]
  /\ pc' = [pc EXCEPT ![c] = "returned"]
  /\ gil' = 0
  /\ UNCHANGED <<inputs, op, images_npyarray, second_npyarray, result_obj, idx,
                 iters, err>>

Next ==
  \/ \E c \in threads, o \in Ops, nargs \in {1, 2} : Call(c, o, nargs)
  \/ \E c \in threads : CheckImages(c)
  \/ \E c \in threads : CheckSecond(c)
  \/ \E c \in threads : CheckShape(c)
  \/ \E c \in threads : Alloc(c)
  \/ \E c \in threads : ConvImages(c)
  \/ \E c \in threads : ConvSecond(c)
  \/ \E c \in threads : ConvOut(c)
  \/ \E c \in threads : BeginAllowThreads(c)
  \/ \E c \in threads : LoopStep(c)
  \/ \E c \in threads : EndAllowThreads(c)
  \/ \E c \in threads : Cleanup(c)

Spec == Init /\ [][Next]_vars

\* two threads calling concurrently on the same two arguments
ConcFrameArgs ==
  CuratedFrames \cup {Unbehaved(ExampleTwoFrames), FloatStack}
  \cup {f \in Stacks : f.shape[1] = 0 /\ f.shape[2] = 1}

InitConc ==
  /\ images_obj \in ConcFrameArgs
  /\ second_obj \in SecondArgsFor(images_obj)
  /\ threads = Threads
  /\ InitCalls

SpecConc == InitConc /\ [][Next]_vars

\* ------------------------------------------------------------ the claims
\* the calls that have returned a result
Returned(c) == pc[c] = "returned" /\ err[c] = "none"
Result(c) == heap[ret[c]]

\* the pixel positions <<i, j, k>> of a frame stack, and <<j, k>> of a frame
Triples(f) ==
  {<<i, j, k>> : i \in 0..(f.shape[1] - 1), j \in 0..(f.shape[2] - 1),
                 k \in 0..(f.shape[3] - 1)}
Positions(f) == {<<j, k>> : j \in 0..(f.shape[2] - 1), k \in 0..(f.shape[3] - 1)}

\* the number of triples with mask[y][x] == 1 and frames[f][y][x] == v
Count(f, m, v) ==
  Cardinality({t \in Triples(f) : At2(m, t[2], t[3]) = 1 /\ At3(f, t[1], t[2], t[3]) = v})

\* the intensities that occur in a frame stack
Intensities(f) == {At3(f, t[1], t[2], t[3]) : t \in Triples(f)}

\* C1: a returned masked_histogram has exactly 65536 bins, and every bin v holds
\* the number of triples (f, y, x) with mask[y][x] == 1 and frames[f][y][x] == v;
\* pixels under any other mask value count nowhere. (The bins outside the
\* array's stored entries are zero; they are compared through the intensities
\* that occur and the two ends of the range.)
C1_HistogramCounts ==
  \A c \in threads :
    (Returned(c) /\ op[c] = "masked_histogram") =>
      /\ ret[c] # 0
      /\ Result(c).shape = <<65536>>
      /\ Result(c).type = NPY_UINT64
      /\ DOMAIN Result(c).data \subseteq 0..65535
      /\ \A v \in DOMAIN Result(c).data \cup Intensities(images_obj) \cup {0, 65535} :
           Elem(Result(c), v) = ToU64(Count(images_obj, second_obj, v))

C1_Witness ==
  \E c \in threads :
    /\ Returned(c) /\ op[c] = "masked_histogram"
    /\ \E p, q \in Positions(images_obj) :
         At2(second_obj, p[1], p[2]) = 1 /\ At2(second_obj, q[1], q[2]) = 2
    /\ images_obj.shape[1] = 2
    /\ Elem(Result(c), 65535) = ToU64(2)

\* the sum of the stored bins of a histogram (all other bins are zero)
RECURSIVE SumBins(_, _)
SumBins(b, S) ==
  IF S = {} THEN U64Zero
  ELSE LET v == CHOOSE v \in S : TRUE
       IN  U64Add(Elem(b, v), SumBins(b, S \ {v}))

MaskOnes(m) == Cardinality({p \in 1..Len(m.data) : m.data[p] = 1})

\* C2: the bins of a returned masked_histogram add up to N times the number
\* of mask entries equal to 1.
C2_HistogramTotal ==
  \A c \in threads :
    (Returned(c) /\ op[c] = "masked_histogram") =>
      SumBins(Result(c), DOMAIN Result(c).data)
        = ToU64(images_obj.shape[1] * MaskOnes(second_obj))

C2_Witness ==
  \E c \in threads :
    /\ Returned(c) /\ op[c] = "masked_histogram"
    /\ images_obj.shape[1] = 2
    /\ MaskOnes(second_obj) = 1
    /\ Len(second_obj.data) = 2
    /\ Cardinality(DOMAIN Result(c).data) = 2

\* the sum of frames[i][y][x] over the positions S
RECURSIVE PixelSum(_, _, _)
PixelSum(f, i, S) ==
  IF S = {} THEN 0
  ELSE LET p == CHOOSE p \in S : TRUE
       IN  At3(f, i, p[1], p[2]) + PixelSum(f, i, S \ {p})

Binary(m) == \A p \in 1..Len(m.data) : m.data[p] \in {0, 1}

\* C3: with a mask of zeros and ones, a returned masked_sum has length N and
\* entry i is the sum of frames[i][y][x] over the positions with mask[y][x] == 1,
\* as a 64-bit number that has not wrapped.
C3_MaskedSum ==
  \A c \in threads :
    (Returned(c) /\ op[c] = "masked_sum" /\ Binary(second_obj)) =>
      /\ ret[c] # 0
      /\ Result(c).shape = <<images_obj.shape[1]>>
      /\ Result(c).type = NPY_UINT64
      /\ \A i \in 0..(images_obj.shape[1] - 1) :
           Elem(Result(c), i) =
             ToU64(PixelSum(images_obj, i,
                            {p \in Positions(images_obj) :
                               At2(second_obj, p[1], p[2]) = 1}))

\* the example of the documentation: [[1,2],[3,4]] under [[1,0],[0,1]] gives [5]
C3_Witness ==
  \E c \in threads :
    /\ Returned(c) /\ op[c] = "masked_sum"
    /\ images_obj.data = <<1, 2, 3, 4>>
    /\ second_obj.data = <<1, 0, 0, 1>>
    /\ Elem(Result(c), 0) = ToU64(5)

\* the sum over all frames of frames[i][y][x]
\* sum of pixel p over the frames lo .. hi - 1, halving the range so that the
\* evaluation nests only logarithmically deep in the number of frames
RECURSIVE FrameSumRange(_, _, _, _)
FrameSumRange(f, p, lo, hi) ==
  IF hi <= lo THEN 0
  ELSE IF hi = lo + 1 THEN At3(f, lo, p[1], p[2])
  ELSE LET mid == (lo + hi) \div 2
       IN  FrameSumRange(f, p, lo, mid) + FrameSumRange(f, p, mid, hi)

FrameSum(f, p, n) == FrameSumRange(f, p, 0, n)

AllOnes(v) == \A p \in 1..Len(v.data) : v.data[p] = 2

\* C4 as stated: with every norm value 1.0, a returned normed_sum is an (H, W)
\* array whose entry [y][x] is the plain sum over all frames of frames[i][y][x].
C4_PlainSum ==
  \A c \in threads :
    (Returned(c) /\ op[c] = "normed_sum" /\ AllOnes(second_obj)) =>
      /\ Result(c).shape = <<images_obj.shape[2], images_obj.shape[3]>>
      /\ \A p \in Positions(images_obj) :
           Elem(Result(c), p[1] * images_obj.shape[3] + p[2])
             = 2 * FrameSum(images_obj, p, images_obj.shape[1])

\* C4 amended: the entry is the plain sum wherever that sum is at most 2^24,
\* the largest range in which float32 holds every integer.
C4_PlainSumRepresentable ==
  \A c \in threads :
    (Returned(c) /\ op[c] = "normed_sum" /\ AllOnes(second_obj)) =>
      /\ ret[c] # 0
      /\ Result(c).shape = <<images_obj.shape[2], images_obj.shape[3]>>
      /\ Result(c).type = NPY_FLOAT32
      /\ \A p \in Positions(images_obj) :
           FrameSum(images_obj, p, images_obj.shape[1]) <= F32Mantissa =>
             Elem(Result(c), p[1] * images_obj.shape[3] + p[2])
               = 2 * FrameSum(images_obj, p, images_obj.shape[1])

\* the example of the documentation: two 1x1 frames [5] and [7] give [[12.0]]
C4_Witness ==
  \E c \in threads :
    /\ Returned(c) /\ op[c] = "normed_sum"
    /\ images_obj.data = <<5, 7>>
    /\ AllOnes(second_obj)
    /\ Elem(Result(c), 0) = 24

\* what is wrong with the arguments of a call of function o
RankBad(o) == images_obj.ndim # 3 \/ second_obj.ndim # SecondNdim(o)
TypeBad(o) == images_obj.type # NPY_UINT16 \/ second_obj.type # SecondType(o)
DimsBad(o) ==
  /\ ~RankBad(o)
  /\ IF o \in MaskOps
     THEN second_obj.shape # <<images_obj.shape[2], images_obj.shape[3]>>
     ELSE second_obj.shape[1] # images_obj.shape[1]
Violation(o) == RankBad(o) \/ TypeBad(o) \/ DimsBad(o)

\* C5: a call of masked_histogram, masked_sum or normed_sum whose arguments
\* violate a rank, type or dimension constraint never reaches the allocation
\* or the loop and returns no result; the error it returns is an IndexError
\* when only ranks or dimensions are wrong and a RuntimeError when only an
\* element type is wrong (and one of the two when both are).
C5_RejectedBeforeAllocation ==
  \A c \in threads :
    (op[c] \in Ops \ {"normed_stack"} /\ err[c] # "TypeError" /\ Violation(op[c])) =>
      /\ pc[c] \in {"check_images", "check_second", "check_shape", "returned"}
      /\ result_obj[c] = 0
      /\ heap = <<>>
      /\ iters[c] = 0
      /\ pc[c] = "returned" =>
           /\ ret[c] = 0
           /\ err[c] \in {"IndexError", "RuntimeError"}
           /\ ~TypeBad(op[c]) => err[c] = "IndexError"
           /\ (~RankBad(op[c]) /\ ~DimsBad(op[c])) => err[c] = "RuntimeError"

C5_Witness ==
  \E c \in threads :
    /\ op[c] = "masked_sum"
    /\ DimsBad(op[c])
    /\ second_obj.shape[1] = images_obj.shape[2]
    /\ pc[c] = "returned"
    /\ err[c] = "IndexError"
    /\ heap = <<>>

\* the elements of two output arrays agree
SameArray(a, b) ==
  /\ a.shape = b.shape
  /\ a.type = b.type
  /\ \A x \in DOMAIN a.data \cup DOMAIN b.data : Elem(a, x) = Elem(b, x)
  /\ a.fill = b.fill \/ Cardinality(DOMAIN a.data) = Prod(a.shape)

\* C6: two calls of the same function with the same arguments return the same
\* array, for masked_histogram, masked_sum, normed_sum and normed_stack.
C6_SameInputsSameOutput ==
  \A c, d \in threads :
    (Returned(c) /\ Returned(d) /\ op[c] = op[d]) => SameArray(Result(c), Result(d))

\* C7: on an empty frame stack the loop body never runs, and a call that
\* returns either reports an error or returns zeros of the right shape:
\* 65536 bins, a sum array of length 0, an (H, W) image.
C7_EmptyStack ==
  \A c \in threads :
    (op[c] \in Ops \ {"normed_stack"} /\ ~Violation(op[c])
       /\ images_obj.shape[1] = 0) =>
      /\ iters[c] = 0
      /\ pc[c] = "returned" =>
           \/ err[c] # "none" /\ ret[c] = 0
           \/ /\ err[c] = "none" /\ ret[c] # 0
              /\ Result(c).shape =
                   (CASE op[c] = "masked_histogram" -> <<65536>>
                      [] op[c] = "masked_sum" -> <<0>>
                      [] op[c] = "normed_sum" ->
                           <<images_obj.shape[2], images_obj.shape[3]>>)
              /\ Result(c).data = <<>>
              /\ Result(c).fill = IF op[c] = "normed_sum" THEN 0 ELSE U64Zero

C7_Witness ==
  \E c \in threads :
    /\ Returned(c) /\ op[c] = "masked_sum"
    /\ images_obj.shape = <<0, 1, 2>>
    /\ Result(c).shape = <<0>>

\* the arrays a call of function o returns when it runs alone: the loop body
\* folded over the index sequence from the set B of fresh result arrays
RECURSIVE RunFrom(_, _, _, _, _)
RunFrom(o, B, f, m, x) ==
  IF ~(x[1] < f.shape[1]) THEN B
  ELSE RunFrom(o, UNION {LoopBody(o, b, f, m, x) : b \in B}, f, m, NextIndex(f, x))

RunAlone(o, f, m) == RunFrom(o, NewResults(o, f), f, m, <<0, 0, 0>>)

\* C8: of two calls running concurrently on the same arguments, each returns
\* what it returns when run alone, and each works on a result array of its own.
C8_ConcurrentCallsIndependent ==
  /\ \A c \in threads :
       (Returned(c) /\ op[c] \in Ops \ {"normed_stack"}) =>
         Result(c) \in RunAlone(op[c], images_obj, second_obj)
  /\ \A c, d \in threads :
       (c # d /\ result_obj[c] # 0) => result_obj[c] # result_obj[d]

\* the loops overlapped: the first call has left its loop with its sum complete
\* and holds the lock again, so the second, now halfway through its own loop
\* on the same arguments, entered it before the first had finished
C8_Witness ==
  /\ op[1] = "masked_sum" /\ op[2] = "masked_sum"
  /\ pc[1] = "cleanup" /\ pc[2] = "loop"
  /\ iters[1] = 4 /\ iters[2] = 2
  /\ images_obj.data = <<1, 2, 3, 4>>
  /\ second_obj.data = <<1, 0, 0, 1>>
  /\ Elem(heap[result_obj[1]], 0) = ToU64(5)
  /\ Elem(heap[result_obj[2]], 0) = ToU64(1)

\* C9: once the allocation of the result has failed, the call does not go on:
\* it is never found in a conversion, in the loop or crashed with a NULL result.
C9_AllocationFailureReported ==
  \A c \in threads :
    pc[c] \in {"conv_images", "conv_second", "conv_out", "begin_threads", "loop",
               "cleanup", "crashed"} => result_obj[c] # 0

\* C10: at no time has a call released more than it acquired, and when it
\* returns, on any path, it holds no reference to an argument, none to a copy
\* made of one, and no pointer table of an argument.
C10_InputReferencesBalanced ==
  \A c \in threads :
    /\ \A a \in Args : rc[c].obj[a] >= 0 /\ rc[c].copy[a] >= 0 /\ rc[c].table[a] >= 0
    /\ pc[c] = "returned" =>
         \A a \in Args : rc[c].obj[a] = 0 /\ rc[c].copy[a] = 0 /\ rc[c].table[a] = 0

\* the third conversion failed after both arguments had been converted, one
\* of them through a copy
C10_Witness ==
  \E c \in threads :
    /\ pc[c] = "returned"
    /\ err[c] = "RuntimeError"
    /\ result_obj[c] # 0
    /\ images_npyarray[c] = "copy"
    /\ second_npyarray[c] = "obj"
    /\ second_obj.behaved

\* frames[i][y][x] * mask[y][x] at its true value, as a 64-bit number
ExactProduct(a, b) == <<Mul16(a, b)[1], Mul16(a, b)[2], 0, 0>>

\* the sum over the positions S of frames[i][y][x] * mask[y][x]
RECURSIVE WeightedSum(_, _, _, _)
WeightedSum(f, m, i, S) ==
  IF S = {} THEN U64Zero
  ELSE LET p == CHOOSE p \in S : TRUE
       IN  U64Add(ExactProduct(At3(f, i, p[1], p[2]), At2(m, p[1], p[2])),
                  WeightedSum(f, m, i, S \ {p}))

\* C11: for any 16-bit mask values, entry i of a returned masked_sum is the
\* exact sum over all positions of frames[i][y][x] * mask[y][x], every product
\* added at its true value.
C11_WeightedSumExact ==
  \A c \in threads :
    (Returned(c) /\ op[c] = "masked_sum") =>
      \A i \in 0..(images_obj.shape[1] - 1) :
        Elem(Result(c), i) = WeightedSum(images_obj, second_obj, i, Positions(images_obj))

\* C12: every entry [i][y][x] of a returned normed_stack is
\* frames[i][y][x] / norm_values[i] and nothing else, whatever the result
\* array held when it was allocated; the result has the shape (N, H, W).
C12_NormedStackQuotient ==
  \A c \in threads :
    (Returned(c) /\ op[c] = "normed_stack") =>
      /\ Result(c).shape = images_obj.shape
      /\ \A t \in Triples(images_obj) :
           Elem(Result(c), (t[1] * images_obj.shape[2] + t[2]) * images_obj.shape[3] + t[3])
             = F32Div(At3(images_obj, t[1], t[2], t[3]), At1(second_obj, t[1]))

\* C13: a call of masked_histogram, masked_sum or normed_sum that returns an
\* error after it has allocated its result array has released that array: no
\* reference to it is left.
C13_ResultReleasedOnError ==
  \A c \in threads :
    (op[c] \in Ops \ {"normed_stack"} /\ pc[c] = "returned" /\ err[c] # "none"
       /\ result_obj[c] # 0) =>
      heap[result_obj[c]].refcnt = 0

====
